---- MODULE Spec2Model ----
(***************************************************************************)
(* A model of promptflow/contracts/flow.py: the reference codec            *)
(* (InputAssignment / FlowInputAssignment), Node construction, and the     *)
(* Flow aggregate with variant resolution, node overrides and connection   *)
(* discovery.                                                              *)
(*                                                                         *)
(* Python strings are sequences of one-character strings, so that          *)
(* startswith, slicing and split are computed character by character.      *)
(* Python objects that are mutated through aliases (Node) live in a heap   *)
(* and are referred to by their identity.                                  *)
(***************************************************************************)
EXTENDS Integers, Sequences, FiniteSets, TLC

VARIABLES
    \* ---- reference codec (CodecSpec) ----
    cpc,        \* position of the codec run: "off" | "input" | "parsed" | "serialized" | "done"
    input,      \* the string handed to InputAssignment.deserialize
    a,          \* InputAssignment.deserialize(input)
    text,       \* a.serialize()
    b,          \* InputAssignment.deserialize(text)
    \* ---- flow aggregate (Spec) ----
    pc,         \* "off" | "raw" | "loaded" | "failed"
    raw,        \* the parsed key-value tree handed to Flow.deserialize
    flow,       \* the Flow object: nodes (identities), node_variants, tools, outputs, tool loader
    heap,       \* Node objects by identity: heap[i] is the Node with identity i
    pre,        \* flow and heap as they were before the last call
    call,       \* the last call: its name and arguments
    result,     \* what the last call returned or raised
    steps       \* calls made on the loaded flow

codecVars == <<cpc, input, a, text, b>>
flowVars == <<pc, raw, flow, heap, pre, call, result, steps>>
vars == <<cpc, input, a, text, b, pc, raw, flow, heap, pre, call, result, steps>>

(***************************************************************************)
(* Strings                                                                 *)
(***************************************************************************)

\* Python's None: no string, since every element of a string is one character.
None == <<"None">>

\* Python truthiness of an Optional[str].
Truthy(v) == v # None /\ v # <<>>

\* str.startswith
StartsWith(s, p) == Len(s) >= Len(p) /\ SubSeq(s, 1, Len(p)) = p

\* "." in s
Contains(s, c) == \E i \in 1..Len(s) : s[i] = c

\* index of the first c in s (s contains c)
FirstIndex(s, c) == CHOOSE i \in 1..Len(s) : s[i] = c /\ \A j \in 1..(i - 1) : s[j] # c

\* s.split(c, 1) for s containing c: the text before the first c and the text after it
SplitFirst(s, c) ==
    LET i == FirstIndex(s, c)
    IN  <<SubSeq(s, 1, i - 1), SubSeq(s, i + 1, Len(s))>>

\* s.split(c): every piece between occurrences of c
RECURSIVE SplitAll(_, _)
SplitAll(s, c) ==
    IF ~Contains(s, c) THEN <<s>>
    ELSE LET p == SplitFirst(s, c) IN <<p[1]>> \o SplitAll(p[2], c)

DOLLAR == "$"
LBRACE == "{"
RBRACE == "}"
DOT == "."

OUTPUT == <<"o", "u", "t", "p", "u", "t">>
CONNECTION == <<"c", "o", "n", "n", "e", "c", "t", "i", "o", "n">>

(***************************************************************************)
(* InputAssignment and FlowInputAssignment                                 *)
(***************************************************************************)

LITERAL == "Literal"
FLOW_INPUT == "FlowInput"
NODE_REFERENCE == "NodeReference"

FLOW_INPUT_PREFIX == <<"f", "l", "o", "w", ".">>
FLOW_INPUT_PREFIXES == <<FLOW_INPUT_PREFIX, <<"i", "n", "p", "u", "t", "s", ".">>>>

\* The dataclass InputAssignment(value, value_type=LITERAL, section="", property="").
\* cls is the class of the object; prefix is the field FlowInputAssignment adds.
InputAssignment(value, value_type, section, property) ==
    [cls |-> "InputAssignment", value |-> value, value_type |-> value_type,
     section |-> section, property |-> property, prefix |-> None]

FlowInputAssignment(value, value_type, prefix) ==
    [cls |-> "FlowInputAssignment", value |-> value, value_type |-> value_type,
     section |-> <<>>, property |-> <<>>, prefix |-> prefix]

\* ConnectionType.is_connection_value: a connection object, never a plain string.
IsConnectionValue(v) == FALSE

\* ConnectionType.serialize_conn: the connection's own textual form.
SerializeConn(v) == v

\* Mutant: the legacy alias "inputs." is not recognised.
IsFlowInput_OnlyFlowPrefix(input_value) == StartsWith(input_value, FLOW_INPUT_PREFIX)

\* FlowInputAssignment.is_flow_input
IsFlowInput(input_value) ==
    \E i \in 1..Len(FLOW_INPUT_PREFIXES) : StartsWith(input_value, FLOW_INPUT_PREFIXES[i])

\* FlowInputAssignment.deserialize: the first prefix of the list that matches;
\* "ValueError" when none does.
FlowInputDeserialize(value) ==
    IF ~IsFlowInput(value) THEN "ValueError"
    ELSE LET i == CHOOSE i \in 1..Len(FLOW_INPUT_PREFIXES) :
                      /\ StartsWith(value, FLOW_INPUT_PREFIXES[i])
                      /\ \A j \in 1..(i - 1) : ~StartsWith(value, FLOW_INPUT_PREFIXES[j])
             prefix == FLOW_INPUT_PREFIXES[i]
         IN  FlowInputAssignment(SubSeq(value, Len(prefix) + 1, Len(value)), FLOW_INPUT, prefix)

\* Mutant: split on every "." and keep the third piece only as the property.
DeserializeNodeReference_SplitAll(data) ==
    LET parts == SplitAll(data, DOT)
    IN  IF Len(parts) = 1 THEN InputAssignment(data, NODE_REFERENCE, OUTPUT, <<>>)
        ELSE IF Len(parts) = 2 THEN InputAssignment(parts[1], NODE_REFERENCE, parts[2], <<>>)
        ELSE InputAssignment(parts[1], NODE_REFERENCE, parts[2], parts[3])

\* InputAssignment.deserialize_node_reference
DeserializeNodeReference(data) ==
    IF ~Contains(data, DOT) THEN InputAssignment(data, NODE_REFERENCE, OUTPUT, <<>>)
    ELSE LET node_name == SplitFirst(data, DOT)[1]
             port_name == SplitFirst(data, DOT)[2]
         IN  IF ~Contains(port_name, DOT)
             THEN InputAssignment(node_name, NODE_REFERENCE, port_name, <<>>)
             ELSE InputAssignment(node_name, NODE_REFERENCE,
                                  SplitFirst(port_name, DOT)[1], SplitFirst(port_name, DOT)[2])

\* InputAssignment.deserialize_reference
DeserializeReference(value) ==
    IF IsFlowInput(value) THEN FlowInputDeserialize(value)
    ELSE DeserializeNodeReference(value)

\* Mutant: the closing brace is not checked.
Deserialize_NoCloseCheck(value) ==
    LET literal_value == InputAssignment(value, LITERAL, <<>>, <<>>)
    IN  IF StartsWith(value, <<DOLLAR>>) /\ Len(value) > 2
        THEN LET v1 == Tail(value)
             IN  IF v1[1] # LBRACE
                 THEN literal_value
                 ELSE DeserializeReference(SubSeq(v1, 2, Len(v1) - 1))
        ELSE literal_value

\* InputAssignment.deserialize (of a str)
Deserialize(value) ==
    LET literal_value == InputAssignment(value, LITERAL, <<>>, <<>>)
    IN  IF StartsWith(value, <<DOLLAR>>) /\ Len(value) > 2
        THEN LET v1 == Tail(value)
             IN  IF v1[1] # LBRACE \/ v1[Len(v1)] # RBRACE
                 THEN literal_value
                 ELSE DeserializeReference(SubSeq(v1, 2, Len(v1) - 1))
        ELSE literal_value

\* InputAssignment.serialize
Serialize(self) ==
    IF self.value_type = FLOW_INPUT
    THEN <<DOLLAR, LBRACE>> \o FLOW_INPUT_PREFIX \o self.value \o <<RBRACE>>
    ELSE IF self.value_type = NODE_REFERENCE
    THEN IF self.property # <<>>
         THEN <<DOLLAR, LBRACE>> \o self.value \o <<DOT>> \o self.section
                  \o <<DOT>> \o self.property \o <<RBRACE>>
         ELSE <<DOLLAR, LBRACE>> \o self.value \o <<DOT>> \o self.section \o <<RBRACE>>
    ELSE IF IsConnectionValue(self.value) THEN SerializeConn(self.value)
    ELSE self.value

(***************************************************************************)
(* The codec's inputs: an optional opening, up to MaxInner tokens, an      *)
(* optional closing brace.  The words "flow" and "inputs" are tokens so    *)
(* that the flow-input prefixes occur within the bound.                    *)
(***************************************************************************)

MaxInner == 5

Tokens == {<<"a">>, <<"f", "l", "o", "w">>, <<"i", "n", "p", "u", "t", "s">>,
           <<DOT>>, <<RBRACE>>, <<DOLLAR>>}

RECURSIVE Flatten(_)
Flatten(ts) == IF ts = <<>> THEN <<>> ELSE Head(ts) \o Flatten(Tail(ts))

TokenSeqs == UNION {[1..k -> Tokens] : k \in 0..MaxInner}

Openings == {<<>>, <<DOLLAR>>, <<DOLLAR, LBRACE>>}
Closings == {<<>>, <<RBRACE>>}

CodecInputs == {o \o Flatten(ts) \o c : o \in Openings, ts \in TokenSeqs, c \in Closings}

NoAssignment == [cls |-> "none"]

CodecIdle ==
    /\ cpc = "off" /\ input = <<>> /\ a = NoAssignment /\ text = <<>> /\ b = NoAssignment

FlowIdle ==
    /\ pc = "off" /\ raw = <<>> /\ flow = <<>> /\ heap = <<>>
    /\ pre = <<>> /\ call = <<>> /\ result = <<>> /\ steps = 0

CodecInit ==
    /\ cpc = "input"
    /\ input \in CodecInputs
    /\ a = NoAssignment /\ text = <<>> /\ b = NoAssignment
    /\ FlowIdle

\* a = InputAssignment.deserialize(input)
CodecDeserialize ==
    /\ cpc = "input"
    /\ a' = Deserialize(input)
    /\ cpc' = "parsed"
    /\ UNCHANGED <<input, text, b>>
    /\ UNCHANGED flowVars

\* text = a.serialize()
CodecSerialize ==
    /\ cpc = "parsed"
    /\ text' = Serialize(a)
    /\ cpc' = "serialized"
    /\ UNCHANGED <<input, a, b>>
    /\ UNCHANGED flowVars

\* b = InputAssignment.deserialize(text)
CodecReparse ==
    /\ cpc = "serialized"
    /\ b' = Deserialize(text)
    /\ cpc' = "done"
    /\ UNCHANGED <<input, a, text>>
    /\ UNCHANGED flowVars

CodecNext == CodecDeserialize \/ CodecSerialize \/ CodecReparse

CodecSpec == CodecInit /\ [][CodecNext]_vars

(***************************************************************************)
(* Properties of the codec, checked under CodecSpec                        *)
(***************************************************************************)

FLOW == <<"f", "l", "o", "w">>
INPUTS == <<"i", "n", "p", "u", "t", "s">>

\* s has the shape ${...}: "$" first, "{" second, "}" last, more than two characters.
Wrapped(s) == Len(s) > 2 /\ s[1] = DOLLAR /\ s[2] = LBRACE /\ s[Len(s)] = RBRACE

\* the text between "${" and "}"
Inner(s) == SubSeq(s, 3, Len(s) - 1)

\* s opens with "${" and does not end with "}"
MissingClose(s) == Len(s) >= 2 /\ s[1] = DOLLAR /\ s[2] = LBRACE /\ s[Len(s)] # RBRACE

DotPositions(t) == {i \in 1..Len(t) : t[i] = DOT}
FirstDot(t) == CHOOSE i \in DotPositions(t) : \A j \in DotPositions(t) : i <= j
SecondDot(t) ==
    CHOOSE i \in DotPositions(t) \ {FirstDot(t)} : \A j \in DotPositions(t) \ {FirstDot(t)} : i <= j

HasFlowPrefix(t) ==
    \/ (Len(t) >= 5 /\ SubSeq(t, 1, 5) = FLOW \o <<DOT>>)
    \/ (Len(t) >= 7 /\ SubSeq(t, 1, 7) = INPUTS \o <<DOT>>)

Parsed == cpc \in {"parsed", "serialized", "done"}

\* C1 (as claimed): deserializing the serialization of a = deserialize(s) gives back
\* a's value_type, value, section and property, for every string s.
C1_RoundTrip ==
    cpc = "done" =>
        /\ b.value_type = a.value_type
        /\ b.value = a.value
        /\ b.section = a.section
        /\ b.property = a.property

\* C2: deserialize(s) is a FlowInput or NodeReference only if s is wrapped as ${...};
\* every other s gives a Literal holding s unchanged, with empty section and property.
C2_ReferenceOnlyIfWrapped ==
    Parsed =>
        /\ (a.value_type # LITERAL => Wrapped(input))
        /\ (~Wrapped(input) =>
                /\ a.value_type = LITERAL
                /\ a.value = input
                /\ a.section = <<>>
                /\ a.property = <<>>)

\* C2 witness: an unterminated "${..." was deserialized to a Literal.
C2_Witness ==
    /\ Parsed
    /\ MissingClose(input) /\ Len(input) > 3
    /\ a.value_type = LITERAL /\ a.value = input

\* C3 (as claimed): a string with a missing closing brace, and the string "${}",
\* deserialize to a Literal holding the original string.
C3_MalformedIsLiteral ==
    (Parsed /\ (MissingClose(input) \/ input = <<DOLLAR, LBRACE, RBRACE>>)) =>
        /\ a.value_type = LITERAL
        /\ a.value = input

\* C4: a wrapped inner text t without a flow-input prefix gives a NodeReference:
\* no "." -> (t, "output", ""); one "." -> (before, after, ""); two or more ->
\* (before the first, between the first and second, everything after the second).
C4_NodeReferenceParsing ==
    (Parsed /\ Wrapped(input) /\ ~HasFlowPrefix(Inner(input))) =>
        LET t == Inner(input)
            n == Cardinality(DotPositions(t))
        IN  /\ a.value_type = NODE_REFERENCE
            /\ a.cls = "InputAssignment"
            /\ n = 0 => /\ a.value = t
                        /\ a.section = OUTPUT
                        /\ a.property = <<>>
            /\ n = 1 => /\ a.value = SubSeq(t, 1, FirstDot(t) - 1)
                        /\ a.section = SubSeq(t, FirstDot(t) + 1, Len(t))
                        /\ a.property = <<>>
            /\ n >= 2 => /\ a.value = SubSeq(t, 1, FirstDot(t) - 1)
                         /\ a.section = SubSeq(t, FirstDot(t) + 1, SecondDot(t) - 1)
                         /\ a.property = SubSeq(t, SecondDot(t) + 1, Len(t))

\* C4 witness: a node reference whose property itself contains a dot was parsed.
C4_Witness ==
    /\ Parsed /\ Wrapped(input) /\ ~HasFlowPrefix(Inner(input))
    /\ Cardinality(DotPositions(Inner(input))) >= 3
    /\ a.value_type = NODE_REFERENCE
    /\ a.value # <<>> /\ a.section # <<>>
    /\ Contains(a.property, DOT)

\* C5: a wrapped inner text starting with "flow." or "inputs." gives a
\* FlowInputAssignment of type FlowInput, value the text after the prefix, prefix the
\* matched prefix, section and property empty; so a NodeReference to a node named
\* "flow" or "inputs" only comes from the bare name, never from a text that writes a section.
C5_FlowInputDispatch ==
    (Parsed /\ Wrapped(input)) =>
        LET t == Inner(input)
            p == IF StartsWith(t, FLOW \o <<DOT>>) THEN FLOW \o <<DOT>> ELSE INPUTS \o <<DOT>>
        IN  /\ HasFlowPrefix(t) =>
                /\ a.cls = "FlowInputAssignment"
                /\ a.value_type = FLOW_INPUT
                /\ a.value = SubSeq(t, Len(p) + 1, Len(t))
                /\ a.prefix = p
                /\ a.section = <<>>
                /\ a.property = <<>>
            /\ (a.value_type = NODE_REFERENCE /\ a.value \in {FLOW, INPUTS}) =>
                /\ t = a.value
                /\ a.section = OUTPUT
                /\ a.property = <<>>

\* C5 witness: "${inputs.<name>}" with a dotted name was parsed through the legacy alias.
C5_Witness ==
    /\ Parsed /\ Wrapped(input)
    /\ StartsWith(Inner(input), INPUTS \o <<DOT>>)
    /\ a.value_type = FLOW_INPUT
    /\ a.prefix = INPUTS \o <<DOT>>
    /\ Contains(a.value, DOT)

(***************************************************************************)
(* Node and its conditions.  A raw tree (a parsed dict) is a record with   *)
(* the set of its present keys in the field keys; a field whose key is     *)
(* absent holds a placeholder that is never read.  The fields comment,     *)
(* api, provider, module, enable_cache and source of Node are carried by   *)
(* no operation modelled here and are left out.                            *)
(***************************************************************************)

\* key in data
Has(data, key) == key \in data.keys

\* data.get(key, default)
Get(data, key, default) == IF key \in data.keys THEN data[key] ELSE default

\* None where a SkipCondition or ActivateCondition may stand
NoCondition == [cls |-> "None"]

\* None where a ToolType may stand
NoType == "None"
LLM == "llm"
PROMPT == "prompt"
PYTHON == "python"

\* SkipCondition.deserialize
SkipConditionDeserialize(data) ==
    [cls |-> "SkipCondition",
     condition |-> Deserialize(data.when),
     condition_value |-> data.is,
     return_value |-> Deserialize(data.return)]

\* ActivateCondition.deserialize
ActivateConditionDeserialize(data) ==
    [cls |-> "ActivateCondition",
     condition |-> Deserialize(data.when),
     condition_value |-> data.is]

\* raise NodeConditionConflict(...)
NodeConditionConflict == [error |-> "NodeConditionConflict"]

\* The Node that Node.deserialize builds before it checks the conditions.
NodeOf(data) ==
    [name |-> Get(data, "name", None),
     tool |-> Get(data, "tool", None),
     inputs |-> IF Has(data, "inputs")
                THEN [k \in DOMAIN data.inputs |-> Deserialize(data.inputs[k])]
                ELSE <<>>,
     connection |-> Get(data, "connection", None),
     aggregation |-> Get(data, "aggregation", FALSE) \/ Get(data, "reduce", FALSE),
     use_variants |-> Get(data, "use_variants", FALSE),
     type |-> IF Has(data, "type") THEN data.type ELSE NoType,
     skip |-> IF Has(data, "skip") THEN SkipConditionDeserialize(data.skip) ELSE NoCondition,
     activate |-> IF Has(data, "activate")
                  THEN ActivateConditionDeserialize(data.activate) ELSE NoCondition]

\* Mutant: the skip/activate conflict is not checked.
NodeDeserialize_NoConflictCheck(data) == NodeOf(data)

\* Node.deserialize: the Node, or NodeConditionConflict when it raises.
NodeDeserialize(data) ==
    LET node == NodeOf(data)
    IN  IF node.skip # NoCondition /\ node.activate # NoCondition
        THEN NodeConditionConflict
        ELSE node

(***************************************************************************)
(* Flow.deserialize and Flow.from_yaml.  The raw node_variants and each    *)
(* entry's variants are association lists (a dict in its insertion order). *)
(* Node identities are given in construction order: the flow's nodes,      *)
(* then each variant's node.  Flow.id, Flow.name and Flow.inputs are read  *)
(* by no operation modelled here and are left out; no node or tool names   *)
(* a module, so Flow._import_requisites imports nothing.                   *)
(***************************************************************************)

RECURSIVE VariantsBefore(_, _)
\* the number of variants in the entries before entry i
VariantsBefore(nv, i) ==
    IF i = 1 THEN 0 ELSE VariantsBefore(nv, i - 1) + Len(nv[i - 1].variants)

\* the identity of the node of variant j of entry i
VariantNodeId(data, i, j) == Len(data.nodes) + VariantsBefore(data.node_variants, i) + j

\* every raw node tree Flow.deserialize hands to Node.deserialize, in order
RawNodeTrees(data) ==
    LET nv == data.node_variants
        total == Len(data.nodes) + VariantsBefore(nv, Len(nv) + 1)
    IN  [k \in 1..total |->
            IF k <= Len(data.nodes) THEN data.nodes[k]
            ELSE LET i == CHOOSE i \in 1..Len(nv) :
                              \E j \in 1..Len(nv[i].variants) : VariantNodeId(data, i, j) = k
                     j == CHOOSE j \in 1..Len(nv[i].variants) : VariantNodeId(data, i, j) = k
                 IN  nv[i].variants[j].node]

\* NodeVariants.deserialize of entry i, its nodes referred to by identity
NodeVariantsDeserialize(data, i) ==
    LET e == data.node_variants[i]
    IN  [default_variant_id |-> e.default_variant_id,
         variants |-> [vid \in {e.variants[j].id : j \in 1..Len(e.variants)} |->
                          LET j == CHOOSE j \in 1..Len(e.variants) : e.variants[j].id = vid
                          IN  [node |-> VariantNodeId(data, i, j)]]]

\* FlowOutputDefinition.deserialize
FlowOutputDeserialize(data) == [reference |-> Deserialize(Get(data, "reference", <<>>))]

\* Flow.deserialize: the Flow and the Nodes it owns, or the error it raises.
FlowDeserialize(data) ==
    LET trees == RawNodeTrees(data)
        nv == data.node_variants
    IN  IF \E k \in 1..Len(trees) : NodeDeserialize(trees[k]) = NodeConditionConflict
        THEN NodeConditionConflict
        ELSE [flow |->
                [nodes |-> [k \in 1..Len(data.nodes) |-> k],
                 node_variants |->
                    [name \in {nv[i].name : i \in 1..Len(nv)} |->
                        NodeVariantsDeserialize(data, CHOOSE i \in 1..Len(nv) : nv[i].name = name)],
                 tools |-> data.tools,
                 outputs |-> [o \in DOMAIN data.outputs |-> FlowOutputDeserialize(data.outputs[o])],
                 tool_loader |-> FALSE],
              heap |-> [k \in 1..Len(trees) |-> NodeDeserialize(trees[k])]]

\* Flow._set_tool_loader: the attribute _tool_loader exists from here on.
SetToolLoader(f) == [f EXCEPT !.tool_loader = TRUE]

(***************************************************************************)
(* Flow: lookups                                                           *)
(***************************************************************************)

\* None where a Node may stand (identities are positive)
NoNode == 0

\* None where a Tool may stand
NoTool == [cls |-> "None"]

\* Flow.get_node: the first node with the name, or None
GetNode(f, h, node_name) ==
    IF \E i \in 1..Len(f.nodes) : h[f.nodes[i]].name = node_name
    THEN f.nodes[CHOOSE i \in 1..Len(f.nodes) :
                     /\ h[f.nodes[i]].name = node_name
                     /\ \A j \in 1..(i - 1) : h[f.nodes[j]].name # node_name]
    ELSE NoNode

\* Flow.get_tool: the first tool with the name, or None
GetTool(f, tool_name) ==
    IF \E i \in 1..Len(f.tools) : f.tools[i].name = tool_name
    THEN f.tools[CHOOSE i \in 1..Len(f.tools) :
                     /\ f.tools[i].name = tool_name
                     /\ \A j \in 1..(i - 1) : f.tools[j].name # tool_name]
    ELSE NoTool

(***************************************************************************)
(* Variant resolution.  The resolver returns a Node identity and, since it *)
(* assigns to the variant node's name, the heap after the call.            *)
(***************************************************************************)

\* Mutant: the variant node is returned without taking the node's name.
ApplyDefaultNodeVariant_KeepName(node, node_variants, h) ==
    IF DOMAIN node_variants = {} THEN [node |-> node, heap |-> h]
    ELSE IF h[node].name \notin DOMAIN node_variants THEN [node |-> node, heap |-> h]
    ELSE LET node_variant == node_variants[h[node].name]
         IN  IF node_variant.default_variant_id \notin DOMAIN node_variant.variants
             THEN [node |-> node, heap |-> h]
             ELSE [node |-> node_variant.variants[node_variant.default_variant_id].node,
                   heap |-> h]

\* Flow._apply_default_node_variant
ApplyDefaultNodeVariant(node, node_variants, h) ==
    IF DOMAIN node_variants = {} THEN [node |-> node, heap |-> h]
    ELSE IF h[node].name \notin DOMAIN node_variants THEN [node |-> node, heap |-> h]
    ELSE LET node_variant == node_variants[h[node].name]
         IN  IF node_variant.default_variant_id \notin DOMAIN node_variant.variants
             THEN [node |-> node, heap |-> h]
             ELSE LET default_variant == node_variant.variants[node_variant.default_variant_id]
                  IN  [node |-> default_variant.node,
                       heap |-> [h EXCEPT ![default_variant.node].name = h[node].name]]

\* Mutant: no node is resolved to its default variant.
DefaultVariantNodes_Unresolved(nodes, node_variants, h) == [nodes |-> nodes, heap |-> h]

\* [self._apply_default_node_variant(node, self.node_variants) if node.use_variants else node
\*  for node in nodes]: the list, and the heap after the calls, made in list order
RECURSIVE DefaultVariantNodes(_, _, _)
DefaultVariantNodes(nodes, node_variants, h) ==
    IF nodes = <<>> THEN [nodes |-> <<>>, heap |-> h]
    ELSE LET first == IF h[Head(nodes)].use_variants
                      THEN ApplyDefaultNodeVariant(Head(nodes), node_variants, h)
                      ELSE [node |-> Head(nodes), heap |-> h]
             rest == DefaultVariantNodes(Tail(nodes), node_variants, first.heap)
         IN  [nodes |-> <<first.node>> \o rest.nodes, heap |-> rest.heap]

(***************************************************************************)
(* Connection discovery                                                    *)
(***************************************************************************)

\* {v.value for v in ValueType.__members__.values()}
ValueTypes == {"int", "double", "bool", "string", "secret", "prompt_template", "object", "list"}

\* str.lower on the type tags that occur
Lower(typ) ==
    CASE typ = "String" -> "string"
      [] typ = "CustomConnection" -> "customconnection"
      [] typ = "AzureOpenAIConnection" -> "azureopenaiconnection"
      [] OTHER -> typ

\* Mutant: an input is skipped as soon as one of its types is a value type.
IsValueTypedInput_Any(v) == \E i \in 1..Len(v.type) : Lower(v.type[i]) \in ValueTypes

\* all(typ.lower() in value_types for typ in input_type)
IsValueTypedInput(v) == \A i \in 1..Len(v.type) : Lower(v.type[i]) \in ValueTypes

\* Flow._get_connection_name_from_tool: the dict as the list of its (key, value)
\* items, in the order of tool.inputs
RECURSIVE ConnectionItems(_, _)
ConnectionItems(inputs, node) ==
    IF inputs = <<>> THEN <<>>
    ELSE LET k == Head(inputs).name
             v == Head(inputs)
             rest == ConnectionItems(Tail(inputs), node)
         IN  IF IsValueTypedInput(v) THEN rest
             ELSE IF k \in DOMAIN node.inputs /\ node.inputs[k].value_type = LITERAL
             THEN <<[key |-> k, value |-> node.inputs[k].value]>> \o rest
             ELSE rest

GetConnectionNameFromTool(tool, node) == ConnectionItems(tool.inputs, node)

\* The external ToolLoader.load_tool_for_node, by its outcome: a tool declaration
\* for the node's tool, None, or an exception.
LoaderOutcomes == {"tool", "none", "raises"}

LoadToolForNode(node, outcome) ==
    IF outcome = "tool"
    THEN [name |-> node.tool,
          inputs |-> <<[name |-> <<"y">>, type |-> <<"CustomConnection">>]>>]
    ELSE NoTool

\* tool = self.get_tool(node.tool) or self._tool_loader.load_tool_for_node(node)
\* error: the exception raised, "" when none is
ResolveTool(f, node, outcome) ==
    IF GetTool(f, node.tool) # NoTool THEN [error |-> "", tool |-> GetTool(f, node.tool)]
    ELSE IF ~f.tool_loader THEN [error |-> "AttributeError", tool |-> NoTool]
    ELSE IF outcome = "raises" THEN [error |-> "ToolLoadError", tool |-> NoTool]
    ELSE [error |-> "", tool |-> LoadToolForNode(node, outcome)]

\* the for loop of Flow.get_connection_names and its return
RECURSIVE ConnectionNamesLoop(_, _, _, _, _)
ConnectionNamesLoop(nodes, f, h, outcome, connection_names) ==
    IF nodes = <<>>
    THEN [ok |-> TRUE, value |-> {item \in connection_names : Truthy(item)}, error |-> ""]
    ELSE LET node == h[Head(nodes)]
         IN  IF Truthy(node.connection)
             THEN ConnectionNamesLoop(Tail(nodes), f, h, outcome,
                                      connection_names \cup {node.connection})
             ELSE IF node.type = PROMPT \/ node.type = LLM
             THEN ConnectionNamesLoop(Tail(nodes), f, h, outcome, connection_names)
             ELSE LET r == ResolveTool(f, node, outcome)
                      items == GetConnectionNameFromTool(r.tool, node)
                  IN  IF r.error # "" THEN [ok |-> FALSE, value |-> {}, error |-> r.error]
                      ELSE IF r.tool # NoTool
                      THEN ConnectionNamesLoop(Tail(nodes), f, h, outcome,
                               connection_names \cup {items[i].value : i \in 1..Len(items)})
                      ELSE ConnectionNamesLoop(Tail(nodes), f, h, outcome, connection_names)

\* Flow.get_connection_names: what it returns or raises, and the heap after it
GetConnectionNamesCall(f, h, outcome) ==
    LET n == DefaultVariantNodes(f.nodes, f.node_variants, h)
    IN  [result |-> ConnectionNamesLoop(n.nodes, f, n.heap, outcome, {}), heap |-> n.heap]

\* Flow.get_connection_input_names_for_node: what it returns or raises, and the heap
GetConnectionInputNamesCall(f, h, node_name, outcome) ==
    LET found == GetNode(f, h, node_name)
        n == IF found # NoNode /\ h[found].use_variants
             THEN ApplyDefaultNodeVariant(found, f.node_variants, h)
             ELSE [node |-> found, heap |-> h]
    IN  IF n.node = NoNode \/ n.heap[n.node].type = PROMPT \/ n.heap[n.node].type = LLM
        THEN [result |-> [ok |-> TRUE, value |-> <<>>, error |-> ""], heap |-> n.heap]
        ELSE LET r == ResolveTool(f, n.heap[n.node], outcome)
                 items == GetConnectionNameFromTool(r.tool, n.heap[n.node])
             IN  IF r.error # ""
                 THEN [result |-> [ok |-> FALSE, value |-> <<>>, error |-> r.error],
                       heap |-> n.heap]
                 ELSE IF r.tool # NoTool
                 THEN [result |-> [ok |-> TRUE,
                                   value |-> [i \in 1..Len(items) |-> items[i].key],
                                   error |-> ""],
                       heap |-> n.heap]
                 ELSE [result |-> [ok |-> TRUE, value |-> <<>>, error |-> ""], heap |-> n.heap]

(***************************************************************************)
(* Node overrides and variant replacement                                  *)
(***************************************************************************)

\* d[k] = v on a dict
SetItem(d, k, v) == [x \in DOMAIN d \cup {k} |-> IF x = k THEN v ELSE d[x]]

\* Mutant: the connection field is overwritten whenever the field is "connection".
OverrideOne_AlwaysConnection(h, node, input_name, value) ==
    IF input_name = CONNECTION
    THEN [h EXCEPT ![node].connection = value]
    ELSE [h EXCEPT ![node].inputs = SetItem(@, input_name, InputAssignment(value, LITERAL, <<>>, <<>>))]

\* Mutant: the override value is parsed as an input assignment instead of stored as
\* a literal.
OverrideOne_Parsed(h, node, input_name, value) ==
    IF Truthy(h[node].connection) /\ input_name = CONNECTION
    THEN [h EXCEPT ![node].connection = value]
    ELSE [h EXCEPT ![node].inputs = SetItem(@, input_name, Deserialize(value))]

\* the body of the loop of Flow._apply_node_overrides once the node is found
OverrideOne(h, node, input_name, value) ==
    IF Truthy(h[node].connection) /\ input_name = CONNECTION
    THEN [h EXCEPT ![node].connection = value]
    ELSE [h EXCEPT ![node].inputs = SetItem(@, input_name, InputAssignment(value, LITERAL, <<>>, <<>>))]

\* the for loop of Flow._apply_node_overrides over the dict's items, in order
RECURSIVE OverridesLoop(_, _, _)
OverridesLoop(items, f, h) ==
    IF items = <<>> THEN [ok |-> TRUE, error |-> "", heap |-> h]
    ELSE LET key == Head(items).key
             value == Head(items).value
             parts == SplitAll(key, DOT)
         IN  IF Len(parts) # 2 THEN [ok |-> FALSE, error |-> "ValueError", heap |-> h]
             ELSE LET node == GetNode(f, h, parts[1])
                  IN  IF node = NoNode
                      THEN [ok |-> FALSE, error |-> "ValueError", heap |-> h]
                      ELSE OverridesLoop(Tail(items), f, OverrideOne(h, node, parts[2], value))

\* Flow._apply_node_overrides
ApplyNodeOverridesCall(f, h, node_overrides) ==
    IF node_overrides = <<>> THEN [ok |-> TRUE, error |-> "", heap |-> h]
    ELSE OverridesLoop(node_overrides, f, h)

\* Mutant: the first node is replaced whatever its name.
ReplaceWithVariantCall_AnyName(f, h, v, variant_tools) ==
    [f EXCEPT
        !.nodes = IF f.nodes = <<>> THEN f.nodes ELSE [f.nodes EXCEPT ![1] = v],
        !.tools = f.tools \o variant_tools]

\* Flow._replace_with_variant, the variant node having identity v
ReplaceWithVariantCall(f, h, v, variant_tools) ==
    [f EXCEPT
        !.nodes = IF \E i \in 1..Len(f.nodes) : h[f.nodes[i]].name = h[v].name
                  THEN [f.nodes EXCEPT ![CHOOSE i \in 1..Len(f.nodes) :
                                            /\ h[f.nodes[i]].name = h[v].name
                                            /\ \A j \in 1..(i - 1) : h[f.nodes[j]].name # h[v].name] = v]
                  ELSE f.nodes,
        !.tools = f.tools \o variant_tools]

(***************************************************************************)
(* The raw flows: a two-node flow with one variant table entry, and every  *)
(* flow that differs from it in one place.                                 *)
(***************************************************************************)

NameA == <<"A">>
NameB == <<"B">>
NameZ == <<"Z">>
ToolT == <<"T">>
ToolU == <<"U">>
X == <<"x">>
Y == <<"y">>

RefA == <<"$", "{", "A", ".", "o", "u", "t", "p", "u", "t", "}">>
RefB == <<"$", "{", "B", ".", "o", "u", "t", "p", "u", "t", "}">>
FlowRefA == <<"$", "{", "f", "l", "o", "w", ".", "A", "}">>
FlowRefQ == <<"$", "{", "f", "l", "o", "w", ".", "q", "}">>

RawSkip == [when |-> FlowRefQ, is |-> <<"1">>, return |-> <<"r">>]
RawActivate == [when |-> RefA, is |-> <<"1">>]

\* data[key] = value on a raw tree
SetKey(data, key, value) == [data EXCEPT ![key] = value, !.keys = @ \cup {key}]
\* del data[key]
DelKey(data, key) == [data EXCEPT !.keys = @ \ {key}]
\* data["inputs"][k] = v
SetInput(data, k, v) == [data EXCEPT !.inputs = SetItem(@, k, v)]
\* del data["inputs"][k]
DelInput(data, k) == [data EXCEPT !.inputs = [x \in (DOMAIN @) \ {k} |-> @[x]]]

BaseNode1 ==
    [keys |-> {"name", "tool", "inputs", "aggregation", "use_variants"},
     name |-> NameA, tool |-> ToolT, inputs |-> (X :> <<"d">>) @@ (Y :> <<"p">>),
     connection |-> <<>>, aggregation |-> TRUE, reduce |-> FALSE, use_variants |-> TRUE,
     type |-> PYTHON, skip |-> RawSkip, activate |-> RawActivate]

BaseNode2 ==
    [keys |-> {"name", "tool", "inputs", "activate"},
     name |-> NameB, tool |-> ToolT, inputs |-> (X :> <<"f">>) @@ (Y :> <<"q">>),
     connection |-> <<>>, aggregation |-> FALSE, reduce |-> FALSE, use_variants |-> FALSE,
     type |-> PYTHON, skip |-> RawSkip, activate |-> RawActivate]

\* a variant's node carries no name of its own
BaseVariant ==
    [keys |-> {"tool", "inputs", "skip"},
     name |-> <<>>, tool |-> ToolT, inputs |-> (X :> <<"e">>) @@ (Y :> <<"p">>),
     connection |-> <<>>, aggregation |-> FALSE, reduce |-> FALSE, use_variants |-> FALSE,
     type |-> PYTHON, skip |-> RawSkip, activate |-> RawActivate]

OtherVariant == SetInput(SetKey(BaseVariant, "name", NameZ), X, <<"g">>)

Node1Trees ==
    {SetKey(BaseNode1, "tool", ToolU),
     SetInput(BaseNode1, X, RefB), SetInput(BaseNode1, X, FlowRefQ),
     SetInput(BaseNode1, X, <<>>), DelInput(BaseNode1, X),
     SetKey(BaseNode1, "connection", <<"c">>),
     SetKey(BaseNode1, "type", LLM),
     DelKey(BaseNode1, "aggregation"),
     DelKey(BaseNode1, "use_variants"),
     SetKey(BaseNode1, "skip", RawSkip),
     SetKey(BaseNode1, "activate", RawActivate)}

Node2Trees ==
    {SetKey(BaseNode2, "name", NameA),
     SetKey(BaseNode2, "tool", ToolU),
     SetInput(BaseNode2, X, RefA), SetInput(BaseNode2, X, FlowRefQ),
     SetInput(BaseNode2, X, <<>>), DelKey(BaseNode2, "inputs"),
     SetKey(BaseNode2, "connection", <<"c">>),
     SetKey(BaseNode2, "type", LLM), SetKey(BaseNode2, "type", PROMPT),
     SetKey(BaseNode2, "type", PYTHON),
     SetKey(BaseNode2, "aggregation", TRUE), SetKey(BaseNode2, "reduce", TRUE),
     SetKey(BaseNode2, "use_variants", TRUE),
     SetKey(BaseNode2, "skip", RawSkip),
     DelKey(BaseNode2, "activate")}

VariantTrees ==
    {SetKey(BaseVariant, "name", NameB),
     SetKey(BaseVariant, "tool", ToolU),
     SetInput(BaseVariant, X, RefB), SetInput(BaseVariant, X, <<>>),
     SetKey(BaseVariant, "connection", <<"c">>),
     SetKey(BaseVariant, "type", LLM),
     SetKey(BaseVariant, "use_variants", TRUE),
     SetKey(BaseVariant, "activate", RawActivate),
     DelKey(BaseVariant, "skip")}

\* node_variants: an entry for node A whose default variant v0 exists
BaseTable(v) ==
    <<[name |-> NameA, default_variant_id |-> "v0", variants |-> <<[id |-> "v0", node |-> v]>>]>>

Tables ==
    {<<>>,
     <<[name |-> NameA, default_variant_id |-> "v1",
        variants |-> <<[id |-> "v0", node |-> BaseVariant]>>]>>,
     <<[name |-> NameA, default_variant_id |-> "v1",
        variants |-> <<[id |-> "v0", node |-> OtherVariant], [id |-> "v1", node |-> BaseVariant]>>]>>,
     <<[name |-> NameB, default_variant_id |-> "v0",
        variants |-> <<[id |-> "v0", node |-> BaseVariant]>>]>>}

\* tool T: x takes a connection, y a plain string
BaseTools ==
    <<[name |-> ToolT,
       inputs |-> <<[name |-> X, type |-> <<"CustomConnection">>],
                    [name |-> Y, type |-> <<"string">>]>>]>>

ToolCatalogs ==
    {<<>>,
     <<[name |-> ToolT,
        inputs |-> <<[name |-> Y, type |-> <<"String", "AzureOpenAIConnection">>],
                     [name |-> X, type |-> <<"String">>]>>]>> \o BaseTools}

BaseOutputs == "o" :> [keys |-> {"reference"}, reference |-> RefA]

OutputTables ==
    {"o" :> [keys |-> {"reference"}, reference |-> FlowRefA],
     "o" :> [keys |-> {"reference"}, reference |-> NameA],
     "o" :> [keys |-> {"reference"}, reference |-> RefB],
     "o" :> [keys |-> {}, reference |-> <<>>],
     ("o" :> [keys |-> {"reference"}, reference |-> NameA])
        @@ ("p" :> [keys |-> {"reference"}, reference |-> RefA])}

RawFlow(n1, n2, table, tools, outputs) ==
    [nodes |-> <<n1, n2>>, node_variants |-> table, tools |-> tools, outputs |-> outputs]

BaseFlow == RawFlow(BaseNode1, BaseNode2, BaseTable(BaseVariant), BaseTools, BaseOutputs)

RawFlows ==
    {BaseFlow}
    \cup {[BaseFlow EXCEPT !.nodes[1] = n] : n \in Node1Trees}
    \cup {[BaseFlow EXCEPT !.nodes[2] = n] : n \in Node2Trees}
    \cup {[BaseFlow EXCEPT !.node_variants = BaseTable(v)] : v \in VariantTrees}
    \cup {[BaseFlow EXCEPT !.node_variants = t] : t \in Tables}
    \cup {[BaseFlow EXCEPT !.tools = t] : t \in ToolCatalogs}
    \cup {[BaseFlow EXCEPT !.outputs = o] : o \in OutputTables}

\* The arguments of the calls.
MaxSteps == 2
MaxOverrides == 2

OverrideKeys == {NameA \o <<DOT>> \o X, NameA \o <<DOT>> \o CONNECTION, NameZ \o <<DOT>> \o X}
\* a value that reads as a reference: an override stores it unparsed
OverrideValues == {RefB}

\* dicts of up to MaxOverrides items, as the list of their items
OverrideMappings ==
    UNION {{m \in [1..k -> [key : OverrideKeys, value : OverrideValues]] :
                \A i, j \in 1..k : i # j => m[i].key # m[j].key}
           : k \in 0..MaxOverrides}

ReplacementTrees ==
    {SetInput(SetKey(BaseVariant, "name", NameA), X, <<"h">>),
     SetKey(SetKey(BaseVariant, "name", NameA), "activate", RawActivate),
     SetInput(SetKey(DelKey(BaseVariant, "skip"), "name", NameZ), X, <<"h">>)}

ReplacementTools ==
    {<<>>, <<[name |-> ToolU, inputs |-> <<[name |-> X, type |-> <<"CustomConnection">>]>>]>>}

QueriedNames == {NameA, NameB, NameZ}

(***************************************************************************)
(* The flow as a state machine                                             *)
(***************************************************************************)

Returned(v) == [ok |-> TRUE, value |-> v, error |-> ""]
Raised(e) == [ok |-> FALSE, value |-> <<>>, error |-> e]

Init ==
    /\ pc = "raw"
    /\ raw \in RawFlows
    /\ flow = <<>> /\ heap = <<>> /\ pre = <<>>
    /\ call = [op |-> "none", arg |-> <<>>]
    /\ result = Returned(<<>>)
    /\ steps = 0
    /\ CodecIdle

\* flow = Flow.deserialize(raw): no tool loader is attached
DoFlowDeserialize ==
    /\ pc = "raw"
    /\ LET r == FlowDeserialize(raw)
       IN  IF r = NodeConditionConflict
           THEN /\ pc' = "failed"
                /\ result' = Raised("NodeConditionConflict")
                /\ UNCHANGED <<flow, heap>>
           ELSE /\ pc' = "loaded"
                /\ result' = Returned(<<>>)
                /\ flow' = r.flow
                /\ heap' = r.heap
    /\ call' = [op |-> "Flow.deserialize", arg |-> <<>>]
    /\ UNCHANGED <<raw, pre, steps>>
    /\ UNCHANGED codecVars

\* flow = Flow.from_yaml(file): Flow.deserialize, then _set_tool_loader
FromYaml ==
    /\ pc = "raw"
    /\ LET r == FlowDeserialize(raw)
       IN  IF r = NodeConditionConflict
           THEN /\ pc' = "failed"
                /\ result' = Raised("NodeConditionConflict")
                /\ UNCHANGED <<flow, heap>>
           ELSE /\ pc' = "loaded"
                /\ result' = Returned(<<>>)
                /\ flow' = SetToolLoader(r.flow)
                /\ heap' = r.heap
    /\ call' = [op |-> "Flow.from_yaml", arg |-> <<>>]
    /\ UNCHANGED <<raw, pre, steps>>
    /\ UNCHANGED codecVars

\* a call on the loaded flow: pre keeps the flow and the heap as they were
Calling ==
    /\ pc = "loaded"
    /\ steps < MaxSteps
    /\ steps' = steps + 1
    /\ pre' = [flow |-> flow, heap |-> heap]
    /\ UNCHANGED <<pc, raw>>
    /\ UNCHANGED codecVars

\* flow._apply_default_node_variants()
ApplyDefaultNodeVariants ==
    /\ Calling
    /\ LET n == DefaultVariantNodes(flow.nodes, flow.node_variants, heap)
       IN  /\ flow' = [flow EXCEPT !.nodes = n.nodes]
           /\ heap' = n.heap
    /\ call' = [op |-> "_apply_default_node_variants", arg |-> <<>>]
    /\ result' = Returned(<<>>)

\* flow._apply_node_overrides(node_overrides)
ApplyNodeOverrides ==
    /\ Calling
    /\ \E node_overrides \in OverrideMappings :
        LET r == ApplyNodeOverridesCall(flow, heap, node_overrides)
        IN  /\ heap' = r.heap
            /\ result' = IF r.ok THEN Returned(<<>>) ELSE Raised(r.error)
            /\ call' = [op |-> "_apply_node_overrides", arg |-> node_overrides]
    /\ UNCHANGED flow

\* flow._replace_with_variant(Node.deserialize(tree), variant_tools)
ReplaceWithVariant ==
    /\ Calling
    /\ \E tree \in ReplacementTrees, variant_tools \in ReplacementTools :
        /\ NodeDeserialize(tree) # NodeConditionConflict
        /\ LET h == Append(heap, NodeDeserialize(tree))
               f == ReplaceWithVariantCall(flow, h, Len(h), variant_tools)
           IN  /\ flow' = f
               /\ heap' = IF f.nodes # flow.nodes THEN h ELSE heap
        /\ call' = [op |-> "_replace_with_variant",
                    arg |-> [node |-> tree, tools |-> variant_tools]]
    /\ result' = Returned(<<>>)

\* the outcomes of the tool loader that a call can meet: "unused" when the
\* call does not reach the loader
OutcomesOf(withNone, withRaises) == IF withNone = withRaises THEN {"unused"} ELSE LoaderOutcomes

\* flow.get_connection_names()
GetConnectionNames ==
    /\ Calling
    /\ \E outcome \in OutcomesOf(GetConnectionNamesCall(flow, heap, "none").result,
                                 GetConnectionNamesCall(flow, heap, "raises").result) :
        LET r == GetConnectionNamesCall(flow, heap, outcome)
        IN  /\ heap' = r.heap
            /\ result' = r.result
            /\ call' = [op |-> "get_connection_names", arg |-> [outcome |-> outcome]]
    /\ UNCHANGED flow

\* flow.get_connection_input_names_for_node(node_name)
GetConnectionInputNamesForNode ==
    /\ Calling
    /\ \E node_name \in QueriedNames :
        \E outcome \in OutcomesOf(
                GetConnectionInputNamesCall(flow, heap, node_name, "none").result,
                GetConnectionInputNamesCall(flow, heap, node_name, "raises").result) :
            LET r == GetConnectionInputNamesCall(flow, heap, node_name, outcome)
            IN  /\ heap' = r.heap
                /\ result' = r.result
                /\ call' = [op |-> "get_connection_input_names_for_node",
                            arg |-> [node_name |-> node_name, outcome |-> outcome]]
    /\ UNCHANGED flow

Next ==
    \/ DoFlowDeserialize
    \/ FromYaml
    \/ ApplyDefaultNodeVariants
    \/ ApplyNodeOverrides
    \/ ReplaceWithVariant
    \/ GetConnectionNames
    \/ GetConnectionInputNamesForNode

Spec == Init /\ [][Next]_vars

(***************************************************************************)
(* Properties of the flow, checked under Spec                              *)
(***************************************************************************)

\* the Node objects the flow holds: its nodes and every variant's node
OwnedNodes(f) ==
    {f.nodes[i] : i \in 1..Len(f.nodes)}
    \cup UNION {{f.node_variants[name].variants[vid].node :
                    vid \in DOMAIN f.node_variants[name].variants} :
                name \in DOMAIN f.node_variants}

HasBothConditions(node) == node.skip # NoCondition /\ node.activate # NoCondition

\* C6: loading fails with the condition-conflict error exactly when some raw node
\* tree has both a skip and an activate key, and in every state of a loaded flow,
\* whatever calls were made, no node of flow.nodes or of the variant table has both
\* skip and activate set.
C6_SkipActivateExclusive ==
    /\ pc \in {"loaded", "failed"} =>
        (pc = "failed" <=>
            \E k \in 1..Len(RawNodeTrees(raw)) :
                {"skip", "activate"} \subseteq RawNodeTrees(raw)[k].keys)
    /\ pc = "failed" => result = Raised("NodeConditionConflict")
    /\ pc = "loaded" => \A id \in OwnedNodes(flow) : ~HasBothConditions(heap[id])

\* C6 witness: after a variant replacement, the flow holds a node with only skip
\* and a node with only activate.
C6_Witness ==
    /\ pc = "loaded"
    /\ call.op = "_replace_with_variant"
    /\ flow.nodes # pre.flow.nodes
    /\ \E i, j \in 1..Len(flow.nodes) :
        /\ heap[flow.nodes[i]].skip # NoCondition
        /\ heap[flow.nodes[i]].activate = NoCondition
        /\ heap[flow.nodes[j]].activate # NoCondition
        /\ heap[flow.nodes[j]].skip = NoCondition

\* the default variant's node exists for node (use_variants set, an entry for its
\* name, a variant with the entry's default_variant_id)
HasDefaultVariant(node, table) ==
    /\ node.use_variants
    /\ DOMAIN table # {}
    /\ node.name \in DOMAIN table
    /\ table[node.name].default_variant_id \in DOMAIN table[node.name].variants

DefaultVariantOf(node, table) ==
    table[node.name].variants[table[node.name].default_variant_id].node

\* C7: _apply_default_node_variants leaves at each position the node itself,
\* unchanged, when the node has no default variant to resolve to, and otherwise the
\* default variant's node with every field as the variant had it except name,
\* which is the replaced node's name.
C7_VariantResolution ==
    (pc = "loaded" /\ call.op = "_apply_default_node_variants") =>
        /\ Len(flow.nodes) = Len(pre.flow.nodes)
        /\ \A i \in 1..Len(pre.flow.nodes) :
            LET n == pre.flow.nodes[i]
                T == pre.flow.node_variants
            IN  IF ~HasDefaultVariant(pre.heap[n], T)
                THEN /\ flow.nodes[i] = n
                     /\ heap[n] = pre.heap[n]
                ELSE LET v == DefaultVariantOf(pre.heap[n], T)
                     IN  /\ flow.nodes[i] = v
                         /\ heap[v] = [pre.heap[v] EXCEPT !.name = pre.heap[n].name]

\* C7 witness: a node was replaced by a default variant that differs from it in its
\* inputs and had another name, next to a node that stayed.
C7_Witness ==
    /\ pc = "loaded" /\ call.op = "_apply_default_node_variants"
    /\ \E i, j \in 1..Len(flow.nodes) :
        /\ flow.nodes[i] # pre.flow.nodes[i]
        /\ pre.heap[flow.nodes[i]].name # pre.heap[pre.flow.nodes[i]].name
        /\ heap[flow.nodes[i]].name = pre.heap[pre.flow.nodes[i]].name
        /\ heap[flow.nodes[i]].inputs # pre.heap[pre.flow.nodes[i]].inputs
        /\ flow.nodes[j] = pre.flow.nodes[j]

\* the node that stands for position i once default variants are applied
EffectiveNode(f, h, i) ==
    IF HasDefaultVariant(h[f.nodes[i]], f.node_variants)
    THEN h[DefaultVariantOf(h[f.nodes[i]], f.node_variants)]
    ELSE h[f.nodes[i]]

\* the node's tool: the first of the catalog with its name, else what the loader
\* gives; NoTool when neither gives one
ResolvedTool(f, node, outcome) ==
    LET hits == {i \in 1..Len(f.tools) : f.tools[i].name = node.tool}
    IN  IF hits # {} THEN f.tools[CHOOSE i \in hits : \A j \in hits : i <= j]
        ELSE IF f.tool_loader /\ outcome = "tool" THEN LoadToolForNode(node, "tool")
        ELSE NoTool

\* the input keys of node that tool declares with a type outside the value types
\* and node binds to a literal
ConnectionSlots(tool, node) ==
    IF tool = NoTool THEN {}
    ELSE {tool.inputs[i].name : i \in
            {i \in 1..Len(tool.inputs) :
                /\ \E t \in 1..Len(tool.inputs[i].type) :
                       Lower(tool.inputs[i].type[t]) \notin ValueTypes
                /\ tool.inputs[i].name \in DOMAIN node.inputs
                /\ node.inputs[tool.inputs[i].name].value_type = LITERAL}}

ContributedNames(f, node, outcome) ==
    IF node.connection # None /\ node.connection # <<>> THEN {node.connection}
    ELSE IF node.type \in {PROMPT, LLM} THEN {}
    ELSE {node.inputs[k].value : k \in ConnectionSlots(ResolvedTool(f, node, outcome), node)}

ExpectedConnectionNames(f, h, outcome) ==
    {name \in UNION {ContributedNames(f, EffectiveNode(f, h, i), outcome) : i \in 1..Len(f.nodes)} :
        name # <<>>}

\* C8: when get_connection_names returns, it returns exactly the non-empty names
\* contributed by the nodes taken at their default variants: the connection field
\* when the node has one; nothing for a Prompt or LLM node; otherwise the literal
\* values bound to the inputs that the resolved tool declares with a type outside
\* the plain value types.
C8_ConnectionNames ==
    (pc = "loaded" /\ call.op = "get_connection_names" /\ result.ok) =>
        result.value = ExpectedConnectionNames(pre.flow, pre.heap, call.arg.outcome)

\* C8 witness: a returned set with a node's connection field in it, without that
\* node's literal connection-typed input, and with a name found through a tool.
C8_Witness ==
    /\ pc = "loaded" /\ call.op = "get_connection_names" /\ result.ok
    /\ Cardinality(result.value) >= 2
    /\ \E i \in 1..Len(flow.nodes) :
        LET node == heap[flow.nodes[i]]
        IN  /\ ~node.use_variants
            /\ Truthy(node.connection)
            /\ node.connection \in result.value
            /\ X \in DOMAIN node.inputs
            /\ node.inputs[X].value_type = LITERAL
            /\ node.inputs[X].value # <<>>
            /\ node.inputs[X].value \notin result.value

\* C9 (as claimed): get_connection_names always completes, with or without a tool
\* loader attached and whatever the loader does, and returns the names the nodes
\* with a resolved tool contribute.
C9_ToolLookupFailureNonFatal ==
    (pc = "loaded" /\ call.op = "get_connection_names") =>
        /\ result.ok
        /\ result.value = ExpectedConnectionNames(pre.flow, pre.heap, call.arg.outcome)

\* the items of the mapping that overwrite node's connection field
ConnectionItemsFor(m, f, h, node) ==
    {i \in 1..Len(m) :
        /\ GetNode(f, h, SplitAll(m[i].key, DOT)[1]) = node
        /\ SplitAll(m[i].key, DOT)[2] = CONNECTION
        /\ Truthy(h[node].connection)}

\* the items of the mapping that set input k of node
InputItemsFor(m, f, h, node, k) ==
    {i \in 1..Len(m) :
        /\ GetNode(f, h, SplitAll(m[i].key, DOT)[1]) = node
        /\ SplitAll(m[i].key, DOT)[2] = k
        /\ ~(k = CONNECTION /\ Truthy(h[node].connection))}

\* C10: when _apply_node_overrides returns, every entry "<node>.connection" -> v on
\* a node that had a connection left node.connection = v; every other entry
\* "<node>.<field>" -> v left node.inputs[field] a Literal holding v with empty
\* section and property; nothing else of that node, no other input, no other node
\* and nothing of the Flow changed.
C10_NodeOverrides ==
    (pc = "loaded" /\ call.op = "_apply_node_overrides" /\ result.ok) =>
        LET m == call.arg
            f == pre.flow
            h == pre.heap
        IN  /\ flow = f
            /\ Len(heap) = Len(h)
            /\ \A i \in 1..Len(m) :
                LET node == GetNode(f, h, SplitAll(m[i].key, DOT)[1])
                    field == SplitAll(m[i].key, DOT)[2]
                IN  /\ node # NoNode
                    /\ IF field = CONNECTION /\ h[node].connection # None /\ h[node].connection # <<>>
                       THEN heap[node].connection = m[i].value
                       ELSE /\ field \in DOMAIN heap[node].inputs
                            /\ heap[node].inputs[field] =
                                   [cls |-> "InputAssignment", value |-> m[i].value,
                                    value_type |-> LITERAL, section |-> <<>>,
                                    property |-> <<>>, prefix |-> None]
            /\ \A node \in 1..Len(h) :
                /\ ConnectionItemsFor(m, f, h, node) = {} => heap[node].connection = h[node].connection
                /\ DOMAIN h[node].inputs \subseteq DOMAIN heap[node].inputs
                /\ \A k \in DOMAIN heap[node].inputs :
                        InputItemsFor(m, f, h, node, k) = {} =>
                            /\ k \in DOMAIN h[node].inputs
                            /\ heap[node].inputs[k] = h[node].inputs[k]
                /\ [heap[node] EXCEPT !.connection = <<>>, !.inputs = <<>>]
                       = [h[node] EXCEPT !.connection = <<>>, !.inputs = <<>>]

\* C10 witness: a two-entry mapping overwrote the connection field of a node that
\* had one and set an input of the same node.
C10_Witness ==
    /\ pc = "loaded" /\ call.op = "_apply_node_overrides" /\ result.ok
    /\ Len(call.arg) = 2
    /\ \E node \in 1..Len(heap) :
        /\ Truthy(pre.heap[node].connection)
        /\ heap[node].connection # pre.heap[node].connection
        /\ heap[node].connection = call.arg[1].value
        /\ heap[node].inputs # pre.heap[node].inputs
        /\ CONNECTION \notin DOMAIN heap[node].inputs

(***************************************************************************)
(* Frame properties of the overrides and of connection discovery           *)
(***************************************************************************)

\* the flow and its Node objects as Flow.deserialize built them
LoadedFlow == FlowDeserialize(raw).flow
LoadedHeap == FlowDeserialize(raw).heap

\* the Node objects stored in the variant table
VariantNodes(f) ==
    UNION {{f.node_variants[name].variants[vid].node :
                vid \in DOMAIN f.node_variants[name].variants} :
           name \in DOMAIN f.node_variants}

\* the entries of the mapping whose node is not in the flow
MissingNodeItems(m, f, h) ==
    {i \in 1..Len(m) : GetNode(f, h, SplitAll(m[i].key, DOT)[1]) = NoNode}

\* C11 (as claimed): when a key of the override mapping names a node that is not in
\* the flow, _apply_node_overrides raises the node-not-found error and leaves the
\* flow and every node exactly as they were before the call.
C11_OverrideMissingNodeAtomic ==
    (/\ pc = "loaded" /\ call.op = "_apply_node_overrides"
     /\ MissingNodeItems(call.arg, pre.flow, pre.heap) # {}) =>
        /\ result = Raised("ValueError")
        /\ flow = pre.flow
        /\ heap = pre.heap

\* C12 (as claimed): get_connection_names and get_connection_input_names_for_node
\* leave flow.nodes and every node of flow.nodes and of the variant table, its name
\* included, as they were before the call.
C12_DiscoveryLeavesFlowUntouched ==
    (pc = "loaded"
     /\ call.op \in {"get_connection_names", "get_connection_input_names_for_node"}) =>
        /\ flow = pre.flow
        /\ \A id \in OwnedNodes(pre.flow) : heap[id] = pre.heap[id]

\* C15 (as claimed): whatever default-variant applications and overrides were
\* made, every node stored in the variant table has the inputs and the connection
\* it had when the flow was loaded.
C15_OverridesKeepStoredVariants ==
    pc = "loaded" =>
        \A id \in VariantNodes(LoadedFlow) :
            /\ heap[id].inputs = LoadedHeap[id].inputs
            /\ heap[id].connection = LoadedHeap[id].connection

(***************************************************************************)
(* Connection input names                                                  *)
(***************************************************************************)

\* the first position of flow.nodes whose node has the name, 0 when none has
FirstNamed(f, h, name) ==
    LET hits == {i \in 1..Len(f.nodes) : h[f.nodes[i]].name = name}
    IN  IF hits = {} THEN 0 ELSE CHOOSE i \in hits : \A j \in hits : i <= j

\* C16 (as claimed): get_connection_input_names_for_node(n) returns the empty list
\* when n names no node, when the node taken at its default variant is a Prompt or
\* LLM node, and when its tool is found neither in the catalog nor by the loader
\* (the loader absent, failing or returning nothing); otherwise it returns, each
\* once, the input keys that the resolved tool declares with a type outside the
\* plain value types and the node binds to a literal, and when the node has no
\* connection field the non-empty values bound to those keys are all in
\* get_connection_names().
C16_ConnectionInputNames ==
    (pc = "loaded" /\ call.op = "get_connection_input_names_for_node") =>
        LET f == pre.flow
            h == pre.heap
            outcome == call.arg.outcome
            i == FirstNamed(f, h, call.arg.node_name)
            node == EffectiveNode(f, h, i)
            tool == ResolvedTool(f, node, outcome)
            slots == ConnectionSlots(tool, node)
            names == GetConnectionNamesCall(f, h, outcome).result
        IN  /\ result.ok
            /\ IF i = 0 THEN result.value = <<>>
               ELSE IF node.type \in {PROMPT, LLM} \/ tool = NoTool THEN result.value = <<>>
               ELSE /\ {result.value[k] : k \in 1..Len(result.value)} = slots
                    /\ Len(result.value) = Cardinality(slots)
                    /\ ~Truthy(node.connection) =>
                        /\ names.ok
                        /\ \A k \in slots :
                            Truthy(node.inputs[k].value) => node.inputs[k].value \in names.value

(***************************************************************************)
(* Node identity and dependency edges                                      *)
(***************************************************************************)

\* C17: after _apply_default_node_variants every node of flow.nodes that has
\* use_variants set and a default variant in the table is that default variant's
\* node, and applying the default variants once more gives the same nodes, in the
\* same order, with the same field values.
C17_DefaultVariantsIdempotent ==
    (pc = "loaded" /\ call.op = "_apply_default_node_variants") =>
        /\ \A i \in 1..Len(flow.nodes) :
            HasDefaultVariant(heap[flow.nodes[i]], flow.node_variants) =>
                flow.nodes[i] = DefaultVariantOf(heap[flow.nodes[i]], flow.node_variants)
        /\ LET again == DefaultVariantNodes(flow.nodes, flow.node_variants, heap)
           IN  /\ again.nodes = flow.nodes
               /\ \A i \in 1..Len(flow.nodes) : again.heap[again.nodes[i]] = heap[flow.nodes[i]]

\* C17 witness: a second application in a row, on a flow whose node was replaced by
\* a default variant that itself has use_variants set and so is resolved again.
C17_Witness ==
    /\ pc = "loaded" /\ call.op = "_apply_default_node_variants"
    /\ pre.flow.nodes = flow.nodes
    /\ \E i \in 1..Len(flow.nodes) :
        /\ flow.nodes[i] # LoadedFlow.nodes[i]
        /\ HasDefaultVariant(pre.heap[flow.nodes[i]], flow.node_variants)

\* the names of flow.nodes, in order
NodeNames(f, h) == [i \in 1..Len(f.nodes) |-> h[f.nodes[i]].name]

\* the positions at which two node lists hold different Node objects
ChangedPositions(f, g) == {i \in 1..Len(f.nodes) : f.nodes[i] # g.nodes[i]}

\* C18: in every state of a loaded flow the names of flow.nodes, in order, are those
\* at load time; _replace_with_variant puts the variant node at the first position
\* whose node has its name and nowhere else, changes no other node, and leaves the
\* tool catalog as it was with the extra tools appended.
C18_NodeIdentityStable ==
    pc = "loaded" =>
        /\ NodeNames(flow, heap) = NodeNames(LoadedFlow, LoadedHeap)
        /\ call.op = "_replace_with_variant" =>
            LET variant_node == NodeDeserialize(call.arg.node)
                changed == ChangedPositions(flow, pre.flow)
            IN  /\ Len(flow.nodes) = Len(pre.flow.nodes)
                /\ changed \subseteq {FirstNamed(pre.flow, pre.heap, variant_node.name)}
                /\ \A i \in changed : heap[flow.nodes[i]] = variant_node
                /\ FirstNamed(pre.flow, pre.heap, variant_node.name) # 0 => changed # {}
                /\ \A id \in 1..Len(pre.heap) : heap[id] = pre.heap[id]
                /\ flow.tools = pre.flow.tools \o call.arg.tools
                /\ flow.node_variants = pre.flow.node_variants

\* C18 witness: of two nodes with the same name the first was replaced and the
\* second was not, and extra tools were appended to a non-empty catalog.
C18_Witness ==
    /\ pc = "loaded" /\ call.op = "_replace_with_variant"
    /\ call.arg.tools # <<>> /\ pre.flow.tools # <<>>
    /\ \E i, j \in 1..Len(flow.nodes) :
        /\ i < j
        /\ heap[flow.nodes[i]].name = heap[flow.nodes[j]].name
        /\ flow.nodes[i] # pre.flow.nodes[i]
        /\ flow.nodes[j] = pre.flow.nodes[j]

\* Flow.is_node_referenced_by, by its truth value
IsNodeReferencedBy(h, node, other_node) ==
    /\ DOMAIN h[other_node].inputs # {}
    /\ \E k \in DOMAIN h[other_node].inputs :
        /\ h[other_node].inputs[k].value_type = NODE_REFERENCE
        /\ h[other_node].inputs[k].value = h[node].name

\* Flow.is_referenced_by_other_node
IsReferencedByOtherNode(f, h, node) ==
    \E i \in 1..Len(f.nodes) : IsNodeReferencedBy(h, node, f.nodes[i])

\* C19: after _apply_node_overrides, whether it returned or raised, any node that
\* is referenced by another node was already referenced by it before the call, and
\* any node referenced by some node of the flow already was.
C19_OverridesAddNoEdge ==
    (pc = "loaded" /\ call.op = "_apply_node_overrides") =>
        \A node \in OwnedNodes(flow) :
            /\ \A other \in OwnedNodes(flow) :
                IsNodeReferencedBy(heap, node, other) => IsNodeReferencedBy(pre.heap, node, other)
            /\ IsReferencedByOtherNode(flow, heap, node) =>
                   IsReferencedByOtherNode(pre.flow, pre.heap, node)

\* C19 witness: an override replaced a node's reference to another node by a literal
\* whose text reads as a reference to it; it is no longer referenced by that node.
C19_Witness ==
    /\ pc = "loaded" /\ call.op = "_apply_node_overrides"
    /\ \E i, j \in 1..Len(flow.nodes) :
        LET node == flow.nodes[i]
            other == flow.nodes[j]
        IN  /\ IsNodeReferencedBy(pre.heap, node, other)
            /\ ~IsNodeReferencedBy(heap, node, other)
            /\ IsReferencedByOtherNode(pre.flow, pre.heap, node)
            /\ ~IsReferencedByOtherNode(flow, heap, node)
            /\ \E k \in DOMAIN heap[other].inputs :
                /\ heap[other].inputs[k].value_type = LITERAL
                /\ Deserialize(heap[other].inputs[k].value).value_type = NODE_REFERENCE
                /\ Deserialize(heap[other].inputs[k].value).value = heap[node].name

(***************************************************************************)
(* The classification queries.  They read the flow and change nothing;     *)
(* QuerySpec asks them of the loaded flow and of the flow after default    *)
(* variants were applied or a node was replaced.                           *)
(***************************************************************************)

\* Flow.is_reduce_node, by its truth value
IsReduceNode(f, h, node_name) ==
    LET node == GetNode(f, h, node_name)
    IN  node # NoNode /\ h[node].aggregation

\* Mutant: a name that matches no node counts as a normal node.
IsNormalNode_Missing(f, h, node_name) ==
    LET node == GetNode(f, h, node_name)
    IN  node = NoNode \/ ~h[node].aggregation

\* Flow.is_normal_node
IsNormalNode(f, h, node_name) ==
    LET node == GetNode(f, h, node_name)
    IN  node # NoNode /\ ~h[node].aggregation

\* Mutant: the reference's value type is not looked at.
IsReferencedByFlowOutput_AnyType(f, h, node) ==
    \E o \in DOMAIN f.outputs : f.outputs[o].reference.value = h[node].name

\* Flow.is_referenced_by_flow_output
IsReferencedByFlowOutput(f, h, node) ==
    \E o \in DOMAIN f.outputs :
        /\ f.outputs[o].reference.value_type = NODE_REFERENCE
        /\ f.outputs[o].reference.value = h[node].name

\* flow.is_reduce_node(node_name)
DoIsReduceNode ==
    /\ Calling
    /\ \E node_name \in QueriedNames :
        /\ result' = Returned(IsReduceNode(flow, heap, node_name))
        /\ call' = [op |-> "is_reduce_node", arg |-> [node_name |-> node_name]]
    /\ UNCHANGED <<flow, heap>>

\* flow.is_normal_node(node_name)
DoIsNormalNode ==
    /\ Calling
    /\ \E node_name \in QueriedNames :
        /\ result' = Returned(IsNormalNode(flow, heap, node_name))
        /\ call' = [op |-> "is_normal_node", arg |-> [node_name |-> node_name]]
    /\ UNCHANGED <<flow, heap>>

\* flow.is_referenced_by_flow_output(node), node one of the flow's Node objects
DoIsReferencedByFlowOutput ==
    /\ Calling
    /\ \E node \in OwnedNodes(flow) :
        /\ result' = Returned(IsReferencedByFlowOutput(flow, heap, node))
        /\ call' = [op |-> "is_referenced_by_flow_output", arg |-> [node |-> node]]
    /\ UNCHANGED <<flow, heap>>

QueryNext ==
    \/ DoFlowDeserialize
    \/ FromYaml
    \/ ApplyDefaultNodeVariants
    \/ ReplaceWithVariant
    \/ DoIsReduceNode
    \/ DoIsNormalNode
    \/ DoIsReferencedByFlowOutput

QuerySpec == Init /\ [][QueryNext]_vars

(***************************************************************************)
(* Properties of the queries, checked under QuerySpec                      *)
(***************************************************************************)

\* C13: for the queried name, is_reduce_node and is_normal_node both return, are
\* never both true, are both false when no node has the name, and otherwise
\* exactly one is true: is_reduce_node when the first node with the name has its
\* aggregation flag set, is_normal_node when it has not.
C13_ReduceNormalClassification ==
    (pc = "loaded" /\ call.op \in {"is_reduce_node", "is_normal_node"}) =>
        LET name == call.arg.node_name
            i == FirstNamed(pre.flow, pre.heap, name)
            reduce == IF call.op = "is_reduce_node" THEN result.value
                      ELSE IsReduceNode(pre.flow, pre.heap, name)
            normal == IF call.op = "is_normal_node" THEN result.value
                      ELSE IsNormalNode(pre.flow, pre.heap, name)
        IN  /\ result.ok
            /\ ~(reduce /\ normal)
            /\ i = 0 => (~reduce /\ ~normal)
            /\ i # 0 => /\ reduce <=> pre.heap[pre.flow.nodes[i]].aggregation
                        /\ normal <=> ~pre.heap[pre.flow.nodes[i]].aggregation

\* C13 witness: is_reduce_node answered for a name that two nodes carry, the first
\* an aggregation node and the second not.
C13_Witness ==
    /\ pc = "loaded" /\ call.op = "is_reduce_node"
    /\ result.value = TRUE
    /\ \E i, j \in 1..Len(flow.nodes) :
        /\ i < j
        /\ heap[flow.nodes[i]].name = call.arg.node_name
        /\ heap[flow.nodes[j]].name = call.arg.node_name
        /\ heap[flow.nodes[i]].aggregation
        /\ ~heap[flow.nodes[j]].aggregation

\* the text of each output's reference in the raw flow
RawReferences == {Get(raw.outputs[o], "reference", <<>>) : o \in DOMAIN raw.outputs}

\* C14: is_referenced_by_flow_output(node) returns true exactly when some output's
\* reference is a NodeReference whose value is the node's name; it returns false
\* when every output's reference text is a plain literal or a ${flow.}/${inputs.}
\* reference, whatever name that text mentions, and true when some output's text
\* is ${<name>} or ${<name>.<section>} for the node's name.
C14_ReferencedByFlowOutput ==
    (pc = "loaded" /\ call.op = "is_referenced_by_flow_output") =>
        LET name == pre.heap[call.arg.node].name
            refs == {pre.flow.outputs[o].reference : o \in DOMAIN pre.flow.outputs}
        IN  /\ result.ok
            /\ result.value <=>
                   \E r \in refs : r.value_type = NODE_REFERENCE /\ r.value = name
            /\ (\A t \in RawReferences : ~Wrapped(t) \/ HasFlowPrefix(Inner(t))) =>
                   ~result.value
            /\ (\E t \in RawReferences :
                    /\ Wrapped(t) /\ ~HasFlowPrefix(Inner(t))
                    /\ name = IF DotPositions(Inner(t)) = {} THEN Inner(t)
                              ELSE SubSeq(Inner(t), 1, FirstDot(Inner(t)) - 1)) =>
                   result.value

\* C14 witness: the answer is false for a node whose name is the value of a
\* flow-input reference of an output.
C14_Witness ==
    /\ pc = "loaded" /\ call.op = "is_referenced_by_flow_output"
    /\ result.value = FALSE
    /\ \E o \in DOMAIN flow.outputs :
        /\ flow.outputs[o].reference.value_type = FLOW_INPUT
        /\ flow.outputs[o].reference.value = heap[call.arg.node].name

====
